---------------------------- MODULE Spec2Model ----------------------------
(***************************************************************************)
(* A model of sigdig's Huffman codec (src/src/codecs/huffman.rs), its bit  *)
(* buffer (src/src/util.rs) and the driving loop Codec::stream             *)
(* (src/src/codecs/mod.rs).                                                *)
(*                                                                         *)
(* A BitQueue is modelled by its VecDeque q as a sequence of BOOLEAN whose *)
(* first element is the front of the deque.  A byte is a number 0..255.    *)
(* The program's alphabet is the 256 byte values; the model is written    *)
(* for an alphabet of NumSymbols values 0..NumSymbols-1 (so the header is  *)
(* 8*NumSymbols bytes instead of 2048), everything else keeps its width.   *)
(***************************************************************************)
EXTENDS Integers, Sequences, FiniteSets, TLC

\* ------------------------------------------------------------------ bounds
\* Size of the alphabet (256 in the program: huffman.rs:11, 32-34).
NumSymbols == 4
\* Longest byte sequence handed to the BitQueue conversions.
MaxBytes == 3
\* Largest count of a table handed to HuffmanBuilder::build.
MaxCount == 3
\* Longest input of an encoder session, in bytes.
MaxLen == 3
\* Most process calls of an encoder session.
MaxCalls == 2
\* Largest build threshold (build_tree_after) of an encoder.
MaxThreshold == 2
\* Most bytes that follow the header in a stream handed to a decoder.
MaxPayload == 2
\* Most process calls of a decoder session.
MaxDecCalls == 3
\* Most non-empty reads of a run of the driving loop.
MaxReads == 3
MaxOps == 4
MaxOther == 2

\* -------------------------------------------------------- program constants
\* Bits in a byte (the loop `for i in 0..8` of util.rs).
BitsPerByte == 8
\* Bytes of one serialized counter (u64::to_be_bytes).
CountBytes == 8
\* codecs/mod.rs: the size of the driving loop's read buffer.
DEFAULT_BUFFER_SIZE == 8192

Symbols == 0 .. (NumSymbols - 1)
HeaderBytes == CountBytes * NumSymbols
HeaderBits == BitsPerByte * CountBytes * NumSymbols

\* Byte values the bit-level checks draw from.
ByteSamples == {0, 1, 128, 170, 255}

\* Byte values an encoder session's input is drawn from.
EncBytes == {0, 1, NumSymbols - 1}

\* Counts a decoder's header is drawn from, and the byte values that follow it.
DecCounts == {1, 256}
PayloadBytes == {0, 180}

\* ----------------------------------------------------------------- helpers
Min(a, b) == IF a <= b THEN a ELSE b

Pow2(n) == 2 ^ n

\* Vec::reverse / Iterator::rev
Reverse(s) == [i \in 1 .. Len(s) |-> s[Len(s) + 1 - i]]

\* All sequences over S of length 0..n.
SeqsUpTo(S, n) == UNION {[1 .. k -> S] : k \in 0 .. n}

\* ------------------------------------------------------------- util.rs
\* bytes_to_bools: bit i of a byte is byte & (0b10000000 >> i) != 0.
bytes_to_bools(bytes) ==
    [k \in 1 .. (BitsPerByte * Len(bytes)) |->
        (bytes[((k - 1) \div BitsPerByte) + 1]
            \div Pow2(BitsPerByte - 1 - ((k - 1) % BitsPerByte))) % 2 = 1]

\* The value of the byte pushed for bools[8k .. 8k+7] (0-based), bits past the
\* end of the slice left at 0.
RECURSIVE PackByte(_, _, _)
PackByte(bools, k, j) ==
    IF j = BitsPerByte THEN 0
    ELSE (IF BitsPerByte * k + j + 1 <= Len(bools) /\ bools[BitsPerByte * k + j + 1]
          THEN Pow2(BitsPerByte - 1 - j) ELSE 0)
         + PackByte(bools, k, j + 1)

\* bools_to_bytes: a byte is pushed when i % 8 == 7 or i == len - 1.
bools_to_bytes(bools) ==
    [k \in 1 .. ((Len(bools) + BitsPerByte - 1) \div BitsPerByte) |->
        PackByte(bools, k - 1, 0)]

\* BitQueue::new / with_capacity
BQ_new == <<>>

\* BitQueue::push_front / push_back
push_front(q, item) == <<item>> \o q
push_back(q, item) == Append(q, item)

\* BitQueue::pop_front / pop_back: VecDeque's pops, None on an empty deque.
\* item is the Option returned, <<>> for None and <<bit>> for Some(bit).
pop_front_from_back(q) ==
    IF q = <<>> THEN [q |-> q, item |-> <<>>]
    ELSE [q |-> SubSeq(q, 1, Len(q) - 1), item |-> <<q[Len(q)]>>]
pop_front(q) ==
    IF q = <<>> THEN [q |-> q, item |-> <<>>]
    ELSE [q |-> Tail(q), item |-> <<Head(q)>>]
pop_back(q) ==
    IF q = <<>> THEN [q |-> q, item |-> <<>>]
    ELSE [q |-> SubSeq(q, 1, Len(q) - 1), item |-> <<q[Len(q)]>>]

\* BitQueue::as_vec: the deque front to back, then reversed.
as_vec(q) == Reverse(q)

\* BitQueue::from_vec: VecDeque::from keeps the order of the vector.
from_vec(vec) == vec

\* impl From<&[u8]> for BitQueue
BQ_from(bytes) == from_vec(bytes_to_bools(bytes))

\* BitQueue::push_back_u8s: the bits are pushed to the back in reverse.
push_back_u8s(q, bytes) == q \o Reverse(bytes_to_bools(bytes))

\* BitQueue::partial_to_u8s
partial_to_u8s(q, num_bytes) ==
    LET n == Min(num_bytes, Len(q) \div BitsPerByte)
    IN  IF n = 0 THEN <<>>
        ELSE bools_to_bytes(SubSeq(as_vec(q), 1, n * BitsPerByte))

\* BitQueue::to_u8s
to_u8s(q) == partial_to_u8s(q, (Len(q) \div BitsPerByte) + 1)

\* An extension that moves nothing.
append_dropping(q, other) == q

\* BitQueue::append: VecDeque::append moves other's elements to the back.
append(q, other) == q \o other

\* An extension that keeps other's front-to-back order.
copy_from_front_to_back(q, other) == q \o other

\* BitQueue::copy_from: pushes other.as_vec() to the back.
copy_from(q, other) == q \o as_vec(other)

\* ------------------------------------------------------------ huffman.rs
\* HuffmanNode::Terminal(value, weight) / HuffmanNode::Interior(left, right)
Terminal(value, w) == [kind |-> "Terminal", value |-> value, weight |-> w]
Interior(left, right) == [kind |-> "Interior", left |-> left, right |-> right]

\* HuffmanNode::weight
RECURSIVE weight(_)
weight(node) ==
    IF node.kind = "Terminal" THEN node.weight
    ELSE weight(node.left) + weight(node.right)

\* HuffmanNode::values
RECURSIVE values(_)
values(node) ==
    IF node.kind = "Terminal" THEN <<node.value>>
    ELSE values(node.left) \o values(node.right)

\* A comparison that forgets the weights' order (a max-heap on the weights).
partial_cmp_inverted(a, b) ==
    IF weight(a) > weight(b) THEN -1 ELSE IF weight(a) = weight(b) THEN 0 ELSE 1

\* impl PartialOrd for HuffmanNode: self.weight().cmp(&other.weight()),
\* as -1 (Less), 0 (Equal), 1 (Greater).
partial_cmp(a, b) ==
    IF weight(a) < weight(b) THEN -1 ELSE IF weight(a) = weight(b) THEN 0 ELSE 1

\* The heap holds Reverse<HuffmanNode>: Reverse(a) <= Reverse(b) is b <= a.
rev_le(a, b) == partial_cmp(b, a) <= 0
rev_gt(a, b) == partial_cmp(b, a) > 0
rev_ge(a, b) == partial_cmp(b, a) >= 0

\* std's BinaryHeap (a max-heap in a vector), positions counted from 0.
At(data, pos) == data[pos + 1]
Swap(data, i, j) == [data EXCEPT ![i + 1] = data[j + 1], ![j + 1] = data[i + 1]]

\* The greater child of pos, the right one on a tie.
GreaterChild(data, pos, end) ==
    LET child == 2 * pos + 1
        right == child + 1
    IN  IF right < end /\ ~rev_gt(At(data, child), At(data, right))
        THEN right ELSE child

RECURSIVE sift_up(_, _, _)
sift_up(data, start, pos) ==
    IF pos > start
    THEN LET parent == (pos - 1) \div 2
         IN  IF rev_le(At(data, pos), At(data, parent)) THEN data
             ELSE sift_up(Swap(data, pos, parent), start, parent)
    ELSE data

RECURSIVE sift_down_range(_, _, _)
sift_down_range(data, pos, end) ==
    IF 2 * pos + 1 < end
    THEN LET c == GreaterChild(data, pos, end)
         IN  IF rev_ge(At(data, pos), At(data, c)) THEN data
             ELSE sift_down_range(Swap(data, pos, c), c, end)
    ELSE data

RECURSIVE sift_down_to_bottom(_, _, _)
sift_down_to_bottom(data, start, pos) ==
    IF 2 * pos + 1 < Len(data)
    THEN LET c == GreaterChild(data, pos, Len(data))
         IN  sift_down_to_bottom(Swap(data, pos, c), start, c)
    ELSE sift_up(data, start, pos)

RECURSIVE rebuild(_, _)
rebuild(data, n) ==
    IF n = 0 THEN data
    ELSE rebuild(sift_down_range(data, n - 1, Len(data)), n - 1)

\* BinaryHeap::from_iter
heap_from(vec) == rebuild(vec, Len(vec) \div 2)

\* BinaryHeap::pop on a non-empty heap: the item and the heap left.
heap_pop(data) ==
    LET last == data[Len(data)]
        rest == SubSeq(data, 1, Len(data) - 1)
    IN  IF rest = <<>> THEN [item |-> last, heap |-> rest]
        ELSE [item |-> rest[1],
              heap |-> sift_down_to_bottom([rest EXCEPT ![1] = last], 0, 0)]

\* BinaryHeap::push
heap_push(data, item) == sift_up(Append(data, item), 0, Len(data))

\* A seeding that stops one symbol short (0..255 for 0..=255).
seed_heap_short(counts) ==
    heap_from([i \in 1 .. (NumSymbols - 1) |-> Terminal(i - 1, counts[i - 1])])

\* build, lines 33-35: one Terminal per byte value, weight = its count.
seed_heap(counts) ==
    heap_from([i \in 1 .. NumSymbols |-> Terminal(i - 1, counts[i - 1])])

\* build, line 32: an empty BitQueue per byte value.
empty_index == [s \in Symbols |-> BQ_new]

InSeq(x, s) == \E i \in 1 .. Len(s) : s[i] = x

\* build, lines 39-53: pop the two smallest, push false (true) to the index
\* entry of every value under left (right), push their Interior parent.
RECURSIVE merge_loop(_, _)
merge_loop(heap, index) ==
    IF Len(heap) >= 2
    THEN LET p1 == heap_pop(heap)
             p2 == heap_pop(p1.heap)
             left == p1.item
             right == p2.item
             idx == [s \in Symbols |->
                        IF InSeq(s, values(left)) THEN push_back(index[s], FALSE)
                        ELSE IF InSeq(s, values(right)) THEN push_back(index[s], TRUE)
                        ELSE index[s]]
         IN  merge_loop(heap_push(p2.heap, Interior(left, right)), idx)
    ELSE [root |-> heap_pop(heap).item, index |-> index]

\* HuffmanBuilder::build
build(counts) == merge_loop(seed_heap(counts), empty_index)

\* Option<HuffmanTree>::None
NoTree == [none |-> TRUE]

\* HuffmanBuilder::new
zero_counts == [s \in Symbols |-> 0]

\* HuffmanBuilder::push
builder_push(counts, byte) == [counts EXCEPT ![byte] = @ + 1]

\* The code of byte b read off the tree: the choices from the root to b's
\* Terminal, FALSE for left and TRUE for right (<<>> when b has no leaf).
RECURSIVE path_to(_, _)
path_to(node, b) ==
    IF node.kind = "Terminal" THEN <<>>
    ELSE IF InSeq(b, values(node.left)) THEN <<FALSE>> \o path_to(node.left, b)
    ELSE IF InSeq(b, values(node.right)) THEN <<TRUE>> \o path_to(node.right, b)
    ELSE <<>>


\* c >> (8 * k)
RECURSIVE ShiftRightBytes(_, _)
ShiftRightBytes(c, k) ==
    IF k = 0 \/ c = 0 THEN c ELSE ShiftRightBytes(c \div 256, k - 1)

\* u64::to_be_bytes
to_be_bytes(c) ==
    [j \in 1 .. CountBytes |-> ShiftRightBytes(c, CountBytes - j) % 256]

\* process_buffer, lines 145-148: the counters in index order, each big-endian.
serialize_header(counts) ==
    [k \in 1 .. HeaderBytes |->
        to_be_bytes(counts[(k - 1) \div CountBytes])[((k - 1) % CountBytes) + 1]]

\* HuffmanEncoder::new
new_encoder(build_tree_after) ==
    [tree |-> NoTree, counts |-> zero_counts, buffer_in |-> <<>>,
     buffer_out |-> BQ_new, build_tree_after |-> build_tree_after]

\* process_buffer, lines 138-140: each pending byte's index entry is copied
\* to buffer_out.
RECURSIVE encode_pending(_, _, _)
encode_pending(index, bytes, out) ==
    IF bytes = <<>> THEN out
    ELSE encode_pending(index, Tail(bytes), copy_from(out, index[Head(bytes)]))

\* A trigger that ignores the threshold.
should_build_any(force_push, pending, build_tree_after) ==
    force_push \/ pending > 0

\* process_buffer, line 143
should_build(force_push, pending, build_tree_after) ==
    force_push \/ pending > build_tree_after

\* HuffmanEncoder::process_buffer: the encoder after the call and the bytes
\* returned.  The inner call's result (line 151) is dropped, its effect on
\* the encoder kept.
RECURSIVE process_buffer(_, _)
process_buffer(self, force_push) ==
    LET s1 == IF self.tree # NoTree
              THEN [self EXCEPT
                      !.buffer_out = encode_pending(self.tree.index,
                                                    self.buffer_in, @),
                      !.buffer_in = <<>>]
              ELSE IF should_build(force_push, Len(self.buffer_in),
                                   self.build_tree_after)
              THEN process_buffer(
                      [self EXCEPT
                         !.tree = build(self.counts),
                         !.buffer_out =
                            copy_from(@, BQ_from(serialize_header(self.counts)))],
                      FALSE).self
              ELSE self
    IN  IF Len(s1.buffer_out) % 8 = 0 \/ force_push
        THEN [self |-> [s1 EXCEPT !.buffer_out = BQ_new],
              out |-> Reverse(to_u8s(s1.buffer_out))]
        ELSE [self |-> s1, out |-> <<>>]

RECURSIVE push_all(_, _)
push_all(counts, bytes) ==
    IF bytes = <<>> THEN counts
    ELSE push_all(builder_push(counts, Head(bytes)), Tail(bytes))

\* A process that counts its bytes whether or not the tree is built.
enc_process_counting(self, buffer) ==
    process_buffer(
        [self EXCEPT !.counts = push_all(@, buffer), !.buffer_in = @ \o buffer],
        FALSE)

\* impl Codec for HuffmanEncoder: process
enc_process(self, buffer) ==
    process_buffer(
        [self EXCEPT
           !.counts = IF self.tree = NoTree THEN push_all(@, buffer) ELSE @,
           !.buffer_in = @ \o buffer],
        FALSE)

\* impl Codec for HuffmanEncoder: flush
enc_flush(self) == process_buffer(self, TRUE)

\* HuffmanDecoder::new
new_decoder == [tree |-> NoTree, buffer_in |-> BQ_new]

\* Bitwise or of two naturals.
RECURSIVE BitOr(_, _)
BitOr(a, b) ==
    IF a = 0 THEN b
    ELSE IF b = 0 THEN a
    ELSE (IF a % 2 = 1 \/ b % 2 = 1 THEN 1 ELSE 0) + 2 * BitOr(a \div 2, b \div 2)

\* process, lines 249-252: val |= (components[j] as u64) << (7 - j).
RECURSIVE header_count(_, _, _)
header_count(components, j, val) ==
    IF j = CountBytes THEN val
    ELSE header_count(components, j + 1,
                      BitOr(val, components[j + 1] * Pow2(CountBytes - 1 - j)))

\* process, lines 246-255
header_counts(counts_header) ==
    [i \in Symbols |->
        header_count(SubSeq(counts_header, i * CountBytes + 1,
                            i * CountBytes + CountBytes), 0, 0)]

\* process, lines 211-233: the walk from current_position, until an Interior
\* node finds buffer_in empty.
RECURSIVE walk(_, _, _, _, _)
walk(root, current_position, q, followed_path, out) ==
    IF current_position.kind = "Interior"
    THEN IF q = <<>>
         THEN [q |-> q, followed_path |-> followed_path, out |-> out]
         ELSE walk(root,
                   IF Head(q) THEN current_position.right
                   ELSE current_position.left,
                   Tail(q), push_back(followed_path, Head(q)), out)
    ELSE walk(root, root, q, BQ_new, Append(out, current_position.value))

\* impl Codec for HuffmanDecoder: process
dec_process(self, buffer) ==
    LET q == push_back_u8s(self.buffer_in, buffer)
    IN  IF self.tree # NoTree
        THEN LET w == walk(self.tree.root, self.tree.root, q, BQ_new, <<>>)
             IN  [self |-> [self EXCEPT
                              !.buffer_in = append(w.q, w.followed_path)],
                  out |-> w.out]
        ELSE IF Len(q) >= HeaderBits
        THEN [self |-> [tree |-> build(header_counts(
                                     partial_to_u8s(q, HeaderBytes))),
                        buffer_in |-> from_vec(SubSeq(as_vec(q), HeaderBits + 1,
                                                      Len(q)))],
              out |-> <<>>]
        ELSE [self |-> [self EXCEPT !.buffer_in = q], out |-> <<>>]

\* Codec::flush (the default, which HuffmanDecoder keeps)
dec_flush(self) == [self |-> self, out |-> <<>>]


\* ================================================================= state
VARIABLES
    \* util.rs: a BitQueue under test
    bq_src,       \* the byte slice it is built from
    bq,           \* its deque q
    bq_res,       \* the bytes returned by the last conversion
    bq_pc,        \* "new", "from" (built from bq_src), "to_u8s" (converted
                  \* right after from), "ops" (pushed to or popped from),
                  \* "packed" (converted after pushes or pops), "append",
                  \* "copy_from" (extended with another BitQueue)
    bq_log,       \* the pushes and pops made on it in call order: the call,
                  \* the bit passed or the Option returned, the length before
    bq_a0,        \* its deque before the last append / copy_from
    bq_b0,        \* the other BitQueue's deque before that call
    bq_b,         \* the other BitQueue's deque after that call
    \* huffman.rs: a HuffmanBuilder under test
    b_counts,     \* HuffmanBuilder.counts
    b_tree,       \* the HuffmanTree build returned, NoTree before the call
    \* huffman.rs: an encoder session
    enc,          \* the HuffmanEncoder
    enc_fed,      \* the bytes passed to process so far, concatenated
    enc_chunks,   \* the length of each chunk passed to process, in call order
    enc_out,      \* the bytes returned by process and flush so far, concatenated
    enc_flushed,  \* flush has been called
    \* huffman.rs: a decoder session
    dec,          \* the HuffmanDecoder
    dec_stream,   \* the bytes the session's source holds
    dec_pos,      \* how many of them have been passed to process
    dec_chunks,   \* the length of each chunk passed to process, in call order
    dec_out,      \* the bytes returned by process and flush so far, concatenated
    dec_flushed,  \* flush has been called
    piped,        \* the decoder session reads the encoder session's output
    \* codecs/mod.rs: a run of Codec::stream over a HuffmanDecoder; the reader
    \* holds dec_stream and has handed out dec_pos bytes, the writer holds
    \* dec_out
    st_pc,        \* where the loop stands: "read", "process", "write", "flush",
                  \* "write_last"; "ok" / "err" once stream has returned
    st_chunk,     \* the chunk read (at "process"), the bytes to write (at "write")
    st_log        \* every call stream has made on reader, codec and writer

varsBits == <<bq_src, bq, bq_res, bq_pc, bq_log, bq_a0, bq_b0, bq_b>>
varsBuild == <<b_counts, b_tree>>
varsEnc == <<enc, enc_fed, enc_chunks, enc_out, enc_flushed>>
varsDec == <<dec, dec_stream, dec_pos, dec_chunks, dec_out, dec_flushed>>
varsStream == <<st_pc, st_chunk, st_log>>
vars == <<varsBits, varsBuild, varsEnc, varsDec, piped, varsStream>>

\* ------------------------------------------------------- initial conditions
IdleBits ==
    /\ bq_src = <<>> /\ bq = BQ_new /\ bq_res = <<>> /\ bq_pc = "idle"
    /\ bq_log = <<>> /\ bq_a0 = <<>> /\ bq_b0 = <<>> /\ bq_b = <<>>
IdleBuild == b_counts = zero_counts /\ b_tree = NoTree
IdleEnc ==
    /\ enc = new_encoder(0) /\ enc_fed = <<>> /\ enc_chunks = <<>>
    /\ enc_out = <<>> /\ enc_flushed = TRUE
IdleDec ==
    /\ dec = new_decoder /\ dec_stream = <<>> /\ dec_pos = 0
    /\ dec_chunks = <<>> /\ dec_out = <<>> /\ dec_flushed = TRUE
IdleStream == st_pc = "idle" /\ st_chunk = <<>> /\ st_log = <<>>

\* ---------------------------------------------------------- BitQueue steps
\* The queue was made by BitQueue::new and has not been converted or extended.
FromNew == bq_src = <<>> /\ bq_pc \in {"new", "ops"}
\* The queue is live: made by new or from, not yet converted or extended.
Live == FromNew \/ bq_pc \in {"from", "ops"}
OnlyPushes == \A i \in 1 .. Len(bq_log) : bq_log[i].op \in {"push_front", "push_back"}
Logged(op, item) == Append(bq_log, [op |-> op, item |-> item, len |-> Len(bq)])

\* BitQueue::from(bytes)
BitsFrom ==
    /\ bq_pc = "new"
    /\ bq' = BQ_from(bq_src)
    /\ bq_pc' = "from"
    /\ UNCHANGED <<bq_src, bq_res, bq_log, bq_a0, bq_b0, bq_b,
                   varsBuild, varsEnc, varsDec, piped, varsStream>>

\* bq.push_front(item)
BitsPushFront(item) ==
    /\ FromNew /\ Len(bq_log) < MaxOps
    /\ bq' = push_front(bq, item)
    /\ bq_log' = Logged("push_front", <<item>>)
    /\ bq_pc' = "ops"
    /\ UNCHANGED <<bq_src, bq_res, bq_a0, bq_b0, bq_b,
                   varsBuild, varsEnc, varsDec, piped, varsStream>>

\* bq.push_back(item)
BitsPushBack(item) ==
    /\ FromNew /\ Len(bq_log) < MaxOps
    /\ bq' = push_back(bq, item)
    /\ bq_log' = Logged("push_back", <<item>>)
    /\ bq_pc' = "ops"
    /\ UNCHANGED <<bq_src, bq_res, bq_a0, bq_b0, bq_b,
                   varsBuild, varsEnc, varsDec, piped, varsStream>>

\* bq.pop_front()
BitsPopFront ==
    /\ Live /\ Len(bq_log) < MaxOps
    /\ LET r == pop_front(bq)
       IN  /\ bq' = r.q
           /\ bq_log' = Logged("pop_front", r.item)
    /\ bq_pc' = "ops"
    /\ UNCHANGED <<bq_src, bq_res, bq_a0, bq_b0, bq_b,
                   varsBuild, varsEnc, varsDec, piped, varsStream>>

\* bq.pop_back()
BitsPopBack ==
    /\ Live /\ Len(bq_log) < MaxOps
    /\ LET r == pop_back(bq)
       IN  /\ bq' = r.q
           /\ bq_log' = Logged("pop_back", r.item)
    /\ bq_pc' = "ops"
    /\ UNCHANGED <<bq_src, bq_res, bq_a0, bq_b0, bq_b,
                   varsBuild, varsEnc, varsDec, piped, varsStream>>

\* bq.to_u8s()
BitsToU8s ==
    /\ bq_pc \in {"from", "ops"}
    /\ bq_res' = to_u8s(bq)
    /\ bq_pc' = IF bq_pc = "from" THEN "to_u8s" ELSE "packed"
    /\ UNCHANGED <<bq_src, bq, bq_log, bq_a0, bq_b0, bq_b,
                   varsBuild, varsEnc, varsDec, piped, varsStream>>

\* bq.append(&mut other): VecDeque::append leaves other empty.
BitsAppend(other) ==
    /\ FromNew /\ OnlyPushes /\ Len(bq) <= MaxOther
    /\ bq_a0' = bq /\ bq_b0' = other
    /\ bq' = append(bq, other)
    /\ bq_b' = <<>>
    /\ bq_pc' = "append"
    /\ UNCHANGED <<bq_src, bq_res, bq_log,
                   varsBuild, varsEnc, varsDec, piped, varsStream>>

\* bq.copy_from(&other): other is borrowed immutably.
BitsCopyFrom(other) ==
    /\ FromNew /\ OnlyPushes /\ Len(bq) <= MaxOther
    /\ bq_a0' = bq /\ bq_b0' = other
    /\ bq' = copy_from(bq, other)
    /\ bq_b' = other
    /\ bq_pc' = "copy_from"
    /\ UNCHANGED <<bq_src, bq_res, bq_log,
                   varsBuild, varsEnc, varsDec, piped, varsStream>>

InitBits ==
    /\ bq_src \in SeqsUpTo(ByteSamples, MaxBytes)
    /\ bq = BQ_new /\ bq_res = <<>> /\ bq_pc = "new"
    /\ bq_log = <<>> /\ bq_a0 = <<>> /\ bq_b0 = <<>> /\ bq_b = <<>>
    /\ IdleBuild /\ IdleEnc /\ IdleDec /\ piped = FALSE /\ IdleStream

NextBits ==
    \/ BitsFrom
    \/ \E item \in BOOLEAN : BitsPushFront(item)
    \/ \E item \in BOOLEAN : BitsPushBack(item)
    \/ BitsPopFront
    \/ BitsPopBack
    \/ BitsToU8s
    \/ \E other \in SeqsUpTo(BOOLEAN, MaxOther) : BitsAppend(other)
    \/ \E other \in SeqsUpTo(BOOLEAN, MaxOther) : BitsCopyFrom(other)

SpecBits == InitBits /\ [][NextBits]_vars

\* ----------------------------------------------------- HuffmanBuilder steps
\* builder.push(byte), as the encoder calls it while it has no tree
BuilderPush(byte) ==
    /\ b_tree = NoTree
    /\ b_counts[byte] < MaxCount
    /\ b_counts' = builder_push(b_counts, byte)
    /\ UNCHANGED <<b_tree, varsBits, varsEnc, varsDec, piped, varsStream>>

\* builder.build()
BuilderBuild ==
    /\ b_tree = NoTree
    /\ b_tree' = build(b_counts)
    /\ UNCHANGED <<b_counts, varsBits, varsEnc, varsDec, piped, varsStream>>

\* HuffmanBuilder::deserialize(counts) for any table within the bound
InitBuild ==
    /\ b_counts \in [Symbols -> 0 .. MaxCount]
    /\ b_tree = NoTree
    /\ IdleBits /\ IdleEnc /\ IdleDec /\ piped = FALSE /\ IdleStream

NextBuild == (\E byte \in Symbols : BuilderPush(byte)) \/ BuilderBuild

SpecBuild == InitBuild /\ [][NextBuild]_vars

\* ---------------------------------------------------- encoder session steps
\* encoder.process(buffer)
EncProcess(buffer) ==
    /\ ~enc_flushed
    /\ Len(enc_chunks) < MaxCalls
    /\ Len(enc_fed) + Len(buffer) <= MaxLen
    /\ LET r == enc_process(enc, buffer)
       IN  /\ enc' = r.self
           /\ enc_out' = enc_out \o r.out
    /\ enc_fed' = enc_fed \o buffer
    /\ enc_chunks' = Append(enc_chunks, Len(buffer))
    /\ UNCHANGED <<enc_flushed, varsBits, varsBuild, varsDec, piped, varsStream>>

\* encoder.flush(), once, after the last process
EncFlush ==
    /\ ~enc_flushed
    /\ LET r == enc_flush(enc)
       IN  /\ enc' = r.self
           /\ enc_out' = enc_out \o r.out
    /\ enc_flushed' = TRUE
    /\ UNCHANGED <<enc_fed, enc_chunks, varsBits, varsBuild, varsDec, piped, varsStream>>

\* HuffmanEncoder::new(build_tree_after)
FreshEnc ==
    /\ \E t \in 0 .. MaxThreshold : enc = new_encoder(t)
    /\ enc_fed = <<>> /\ enc_chunks = <<>> /\ enc_out = <<>>
    /\ enc_flushed = FALSE

InitEnc ==
    FreshEnc /\ IdleBits /\ IdleBuild /\ IdleDec /\ piped = FALSE /\ IdleStream

NextEnc ==
    \/ \E buffer \in SeqsUpTo(EncBytes, MaxLen - Len(enc_fed)) : EncProcess(buffer)
    \/ EncFlush

SpecEnc == InitEnc /\ [][NextEnc]_vars

\* ---------------------------------------------------- decoder session steps
\* Tables a stream's header is serialized from: all zero, or one byte value
\* with a count of DecCounts.
DecTables ==
    {zero_counts} \cup {[zero_counts EXCEPT ![s] = c] : s \in Symbols, c \in DecCounts}

\* The streams a decoder session reads: a header and up to MaxPayload bytes.
DecStreams ==
    {serialize_header(t) \o p : t \in DecTables, p \in SeqsUpTo(PayloadBytes, MaxPayload)}

\* The chunk lengths a source hands out when `remaining` bytes are left.
DecChunkLens(remaining) ==
    {n \in {1, 2, HeaderBytes - 1, HeaderBytes, HeaderBytes + 1, remaining} :
        1 <= n /\ n <= remaining}

\* decoder.process(the next n bytes of the stream)
DecProcess(n) ==
    /\ ~dec_flushed
    /\ Len(dec_chunks) < MaxDecCalls
    /\ LET r == dec_process(dec, SubSeq(dec_stream, dec_pos + 1, dec_pos + n))
       IN  /\ dec' = r.self
           /\ dec_out' = dec_out \o r.out
    /\ dec_pos' = dec_pos + n
    /\ dec_chunks' = Append(dec_chunks, n)
    /\ UNCHANGED <<dec_stream, dec_flushed, varsBits, varsBuild, varsEnc, piped, varsStream>>

\* decoder.flush(), once, after the last process
DecFlush ==
    /\ ~dec_flushed
    /\ LET r == dec_flush(dec)
       IN  /\ dec' = r.self
           /\ dec_out' = dec_out \o r.out
    /\ dec_flushed' = TRUE
    /\ UNCHANGED <<dec_stream, dec_pos, dec_chunks, varsBits, varsBuild, varsEnc, piped, varsStream>>

\* HuffmanDecoder::new, and the stream it is about to read
FreshDec(stream) ==
    /\ dec = new_decoder /\ dec_stream = stream /\ dec_pos = 0
    /\ dec_chunks = <<>> /\ dec_out = <<>> /\ dec_flushed = FALSE

InitDec ==
    /\ \E e \in DecStreams : FreshDec(e)
    /\ IdleBits /\ IdleBuild /\ IdleEnc /\ piped = FALSE /\ IdleStream

NextDec ==
    \/ \E n \in DecChunkLens(Len(dec_stream) - dec_pos) : DecProcess(n)
    \/ DecFlush

SpecDec == InitDec /\ [][NextDec]_vars

\* ------------------------------------------- encoder piped into a decoder
\* The encoder session is over: a fresh decoder is given its whole output.
Pipe ==
    /\ enc_flushed /\ ~piped
    /\ piped' = TRUE
    /\ dec' = new_decoder /\ dec_stream' = enc_out /\ dec_pos' = 0
    /\ dec_chunks' = <<>> /\ dec_out' = <<>> /\ dec_flushed' = FALSE
    /\ UNCHANGED <<varsBits, varsBuild, varsEnc, varsStream>>

Init == FreshEnc /\ IdleBits /\ IdleBuild /\ IdleDec /\ piped = FALSE /\ IdleStream

Next ==
    \/ \E buffer \in SeqsUpTo(EncBytes, MaxLen - Len(enc_fed)) : EncProcess(buffer)
    \/ EncFlush
    \/ Pipe
    \/ \E n \in DecChunkLens(Len(dec_stream) - dec_pos) : DecProcess(n)
    \/ DecFlush

Spec == Init /\ [][Next]_vars

\* ------------------------------------------------------------ Codec::stream
\* stream, lines 26-30, with a read error taken for end-of-input.
after_read_lenient(res) ==
    IF res = "ok" THEN "process" ELSE "flush"

\* stream, lines 26-30: where the loop goes on the reader's answer.
after_read(res) ==
    IF res = "ok" THEN "process" ELSE IF res = "eof" THEN "flush" ELSE "err"

\* stream, lines 31 and 34: where the loop goes on write_all's answer.
after_write(pc, res) ==
    IF res = "err" THEN "err" ELSE IF pc = "write" THEN "read" ELSE "ok"

\* The lengths reader.read may return when `remaining` bytes are left.
ReadLens(remaining) ==
    {n \in {1, Min(remaining, DEFAULT_BUFFER_SIZE)} : 1 <= n /\ n <= remaining}

NonEmptyReads ==
    Cardinality({i \in 1 .. Len(st_log) : st_log[i].op = "read" /\ st_log[i].res = "ok"})

\* reader.read(&mut buffer) returns Ok(n), n > 0
StreamReadChunk(n) ==
    /\ st_pc = "read"
    /\ NonEmptyReads < MaxReads
    /\ LET chunk == SubSeq(dec_stream, dec_pos + 1, dec_pos + n)
       IN  /\ st_chunk' = chunk
           /\ st_log' = Append(st_log, [op |-> "read", res |-> "ok", data |-> chunk])
    /\ dec_pos' = dec_pos + n
    /\ st_pc' = after_read("ok")
    /\ UNCHANGED <<dec, dec_stream, dec_chunks, dec_out, dec_flushed, piped,
                   varsBits, varsBuild, varsEnc>>

\* reader.read(&mut buffer) returns Ok(0): the source is exhausted
StreamReadEof ==
    /\ st_pc = "read"
    /\ dec_pos = Len(dec_stream)
    /\ st_log' = Append(st_log, [op |-> "read", res |-> "eof", data |-> <<>>])
    /\ st_pc' = after_read("eof")
    /\ UNCHANGED <<st_chunk, varsDec, piped, varsBits, varsBuild, varsEnc>>

\* reader.read(&mut buffer) returns Err(e)
StreamReadErr ==
    /\ st_pc = "read"
    /\ st_log' = Append(st_log, [op |-> "read", res |-> "err", data |-> <<>>])
    /\ st_pc' = after_read("err")
    /\ UNCHANGED <<st_chunk, varsDec, piped, varsBits, varsBuild, varsEnc>>

\* self.process(chunk)
StreamProcess ==
    /\ st_pc = "process"
    /\ LET r == dec_process(dec, st_chunk)
       IN  /\ dec' = r.self
           /\ st_chunk' = r.out
           /\ st_log' = Append(st_log, [op |-> "process", data |-> st_chunk,
                                        out |-> r.out])
    /\ dec_chunks' = Append(dec_chunks, Len(st_chunk))
    /\ st_pc' = "write"
    /\ UNCHANGED <<dec_stream, dec_pos, dec_out, dec_flushed, piped,
                   varsBits, varsBuild, varsEnc>>

\* self.flush()
StreamFlush ==
    /\ st_pc = "flush"
    /\ LET r == dec_flush(dec)
       IN  /\ dec' = r.self
           /\ st_chunk' = r.out
           /\ st_log' = Append(st_log, [op |-> "flush", data |-> <<>>,
                                        out |-> r.out])
    /\ dec_flushed' = TRUE
    /\ st_pc' = "write_last"
    /\ UNCHANGED <<dec_stream, dec_pos, dec_chunks, dec_out, piped,
                   varsBits, varsBuild, varsEnc>>

\* writer.write_all(bytes) returns Ok (res = "ok") or Err (res = "err")
StreamWrite(res) ==
    /\ st_pc \in {"write", "write_last"}
    /\ st_log' = Append(st_log, [op |-> "write", res |-> res, data |-> st_chunk])
    /\ dec_out' = IF res = "ok" THEN dec_out \o st_chunk ELSE dec_out
    /\ st_chunk' = <<>>
    /\ st_pc' = after_write(st_pc, res)
    /\ UNCHANGED <<dec, dec_stream, dec_pos, dec_chunks, dec_flushed, piped,
                   varsBits, varsBuild, varsEnc>>

\* The sources a run of the driving loop reads: the decoder streams, and
\* some of their proper prefixes.
StreamSources ==
    {SubSeq(e, 1, n) : e \in DecStreams, n \in {0, 1, HeaderBytes - 1}}
        \cup DecStreams

InitStream ==
    /\ \E e \in StreamSources : FreshDec(e)
    /\ st_pc = "read" /\ st_chunk = <<>> /\ st_log = <<>>
    /\ IdleBits /\ IdleBuild /\ IdleEnc /\ piped = FALSE

NextStream ==
    \/ \E n \in ReadLens(Len(dec_stream) - dec_pos) : StreamReadChunk(n)
    \/ StreamReadEof
    \/ StreamReadErr
    \/ StreamProcess
    \/ StreamFlush
    \/ \E res \in {"ok", "err"} : StreamWrite(res)

SpecStream == InitStream /\ [][NextStream]_vars

\* ================================================================ claims
\* The length of the code the encoder emits for byte s.
CodeLen(s) == Len(b_tree.index[s])

\* C6 (tree completeness): the tree build returns has exactly one Terminal
\* for each byte value of the alphabet, its root is an Interior node and
\* every byte's code has at least one bit.
C6_TreeComplete ==
    b_tree # NoTree =>
        /\ Len(values(b_tree.root)) = NumSymbols
        /\ \A s \in Symbols : InSeq(s, values(b_tree.root))
        /\ b_tree.root.kind = "Interior"
        /\ \A s \in Symbols : CodeLen(s) >= 1 /\ Len(path_to(b_tree.root, s)) >= 1

\* C6 witness: a tree built from a table with exactly one non-zero entry.
C6_Witness ==
    /\ b_tree # NoTree
    /\ Cardinality({s \in Symbols : b_counts[s] > 0}) = 1

\* C7 (code-length ordering): in the tree built from a table, a byte with a
\* strictly larger count never has a longer code than one with a smaller count.
C7_LengthOrder ==
    b_tree # NoTree =>
        \A a, b \in Symbols :
            b_counts[a] > b_counts[b] => CodeLen(a) <= CodeLen(b)

\* C7 witness: a built tree in which a more frequent byte has a strictly
\* shorter code than a less frequent one.
C7_Witness ==
    /\ b_tree # NoTree
    /\ \E a, b \in Symbols :
          b_counts[a] > b_counts[b] /\ CodeLen(a) < CodeLen(b)

\* C10 (byte round trip of the bit buffer): BitQueue::from(B).to_u8s()
\* returns B.
C10_ByteRoundTrip == bq_pc = "to_u8s" => bq_res = bq_src


\* The codes of bytes, in order, as the tree spells them from the root.
RECURSIVE codes_of(_, _)
codes_of(root, bytes) ==
    IF bytes = <<>> THEN <<>>
    ELSE path_to(root, Head(bytes)) \o codes_of(root, Tail(bytes))

\* C2 (wire format): once flush has returned, the whole output is the header
\* (each count big-endian on 8 bytes, in byte-value order) followed by the
\* codes of the input bytes in input order, packed most-significant-bit
\* first and zero-padded to a byte boundary.
C2_WireFormat ==
    enc_flushed =>
        enc_out = serialize_header(enc.counts)
                    \o bools_to_bytes(codes_of(enc.tree.root, enc_fed))

\* C3 (empty input): an encoder that was given no byte returns from flush
\* exactly the header, all zero.
C3_EmptyInput ==
    (enc_flushed /\ enc_fed = <<>>) => enc_out = [k \in 1 .. HeaderBytes |-> 0]

\* The whole output of a fresh encoder given S as one chunk, then flushed.
one_chunk_output(S, build_tree_after) ==
    LET p == enc_process(new_encoder(build_tree_after), S)
    IN  p.out \o enc_flush(p.self).out

\* C4 as claimed (chunk-split stability): however the input was split into
\* chunks, the whole output equals that of the same input passed as one chunk.
C4_ChunkSplitStable ==
    enc_flushed => enc_out = one_chunk_output(enc_fed, enc.build_tree_after)

\* C4 as amended: the same, for inputs no longer than the build threshold
\* (the tree is then built by flush, from the counts of the whole input).
C4_SplitStableUpToThreshold ==
    (enc_flushed /\ Len(enc_fed) <= enc.build_tree_after) =>
        enc_out = one_chunk_output(enc_fed, enc.build_tree_after)

\* C4 witness: an input within the threshold, passed as two or more
\* non-empty chunks, flushed with a non-empty output.
C4_Witness ==
    /\ enc_flushed
    /\ Len(enc_fed) <= enc.build_tree_after
    /\ Cardinality({i \in 1 .. Len(enc_chunks) : enc_chunks[i] > 0}) >= 2
    /\ enc_out # <<>>

\* The bytes the decoder has been given so far.
dec_fed == SubSeq(dec_stream, 1, dec_pos)

\* C5 (decoder resumption): however the bytes received so far were split
\* into process calls, the concatenated output of those calls equals the
\* output of one process call on all of them.
C5_Resumption == dec_out = dec_process(new_decoder, dec_fed).out

\* C1 (round trip): when the encoder's whole output has been passed to a
\* fresh decoder and the decoder flushed, the decoder's whole output is the
\* encoder's input.
C1_RoundTrip ==
    (piped /\ dec_flushed /\ dec_pos = Len(dec_stream)) => dec_out = enc_fed

\* The calls of st_log that are of kind op.
CallsOf(op) == {i \in 1 .. Len(st_log) : st_log[i].op = op}

\* Call i of st_log ended in an error.
Failed(i) == st_log[i].op \in {"read", "write"} /\ st_log[i].res = "err"

\* C8 (driving loop protocol): every non-empty chunk read is passed to
\* process, once and at once; the result of process (and of flush) is
\* written before anything else is done; flush is called exactly once, right
\* after the reader reported end-of-input; a failed read or write is the last
\* call stream makes, and stream then returns an error.
C8_Protocol ==
    /\ \A i \in 1 .. Len(st_log) :
          LET e == st_log[i]
              last == (i = Len(st_log))
          IN  /\ (e.op = "read" /\ e.res = "ok") =>
                    /\ e.data # <<>>
                    /\ last => st_pc = "process"
                    /\ ~last => st_log[i + 1].op = "process"
                                  /\ st_log[i + 1].data = e.data
              /\ (e.op = "read" /\ e.res = "eof") =>
                    /\ last => st_pc = "flush"
                    /\ ~last => st_log[i + 1].op = "flush"
              /\ e.op = "process" =>
                    /\ i > 1 /\ st_log[i - 1].op = "read" /\ st_log[i - 1].res = "ok"
                    /\ last => st_pc = "write"
                    /\ ~last => st_log[i + 1].op = "write"
                                  /\ st_log[i + 1].data = e.out
              /\ e.op = "flush" =>
                    /\ i > 1 /\ st_log[i - 1].op = "read" /\ st_log[i - 1].res = "eof"
                    /\ last => st_pc = "write_last"
                    /\ ~last => st_log[i + 1].op = "write"
                                  /\ st_log[i + 1].data = e.out
              /\ (e.op = "write" /\ e.res = "ok") =>
                    /\ i > 1 /\ st_log[i - 1].op \in {"process", "flush"}
                    /\ st_log[i - 1].op = "process" =>
                          /\ last => st_pc = "read"
                          /\ ~last => st_log[i + 1].op = "read"
                    /\ st_log[i - 1].op = "flush" => last /\ st_pc = "ok"
              /\ Failed(i) => last /\ st_pc = "err"
    /\ Cardinality(CallsOf("flush")) <= 1
    /\ st_pc = "ok" => Cardinality(CallsOf("flush")) = 1
    /\ st_pc = "err" => st_log # <<>> /\ Failed(Len(st_log))

\* C8 witness: stream has returned Ok after two chunks were read, processed
\* and written, and the codec flushed.
C8_Witness ==
    /\ st_pc = "ok"
    /\ Cardinality(CallsOf("process")) >= 2
    /\ Cardinality(CallsOf("flush")) = 1

\* C9 (truncated stream): stream does not return Ok when its input ended
\* while the decoder was still awaiting the header or held undecoded bits.
C9_TruncatedFails ==
    st_pc = "ok" => (dec.tree # NoTree /\ dec.buffer_in = BQ_new)

\* C11: to_u8s on a BitQueue of n bits returns ceil(n/8) bytes: all n bits in
\* the order the conversion reads them, most significant bit first, the final
\* partial byte filled up with zero bits; nothing is cut off.
C11_PackPads ==
    bq_pc \in {"to_u8s", "packed"} => bq_res = bools_to_bytes(as_vec(bq))

IsPopFront(e) == e.op = "pop_front"
IsPopBack(e) == e.op = "pop_back"

\* C12: a BitQueue built from n bytes has length 8n; its successive pop_back
\* calls return the bits of the first byte from the most significant bit on,
\* its successive pop_front calls the bits of the last byte from the least
\* significant bit on, and each pop shortens it by one.
C12_Orientation ==
    /\ bq_pc = "from" => Len(bq) = BitsPerByte * Len(bq_src)
    /\ (bq_src # <<>> /\ bq_pc = "ops") =>
        LET bits == bytes_to_bools(bq_src)
            backs == SelectSeq(bq_log, IsPopBack)
            fronts == SelectSeq(bq_log, IsPopFront)
        IN  /\ \A i \in 1 .. Len(backs) : backs[i].item = <<bits[i]>>
            /\ \A j \in 1 .. Len(fronts) : fronts[j].item = <<bits[Len(bits) + 1 - j]>>
            /\ Len(bq) = Len(bits) - Len(bq_log)

\* The first k calls of the log are pushes of kind push, the others pops of
\* kind pop.
PushesThenPops(k, push, pop) ==
    /\ k <= Len(bq_log)
    /\ \A i \in 1 .. Len(bq_log) : bq_log[i].op = (IF i <= k THEN push ELSE pop)

\* What the j-th pop after k pushes must return: the pushed bits in reverse
\* push order, then None.
ReversePushOrder(k) ==
    \A j \in 1 .. Len(bq_log) - k :
        bq_log[k + j].item = (IF j <= k THEN bq_log[k + 1 - j].item ELSE <<>>)

\* C13: on a BitQueue made by new, a pop on the empty queue returns None and
\* leaves it empty; after push_front calls only, pop_front returns the pushed
\* bits in reverse push order and then None, and likewise push_back with
\* pop_back.
C13_PushPop ==
    bq_src = <<>> =>
        /\ \A i \in 1 .. Len(bq_log) :
              (bq_log[i].op \in {"pop_front", "pop_back"} /\ bq_log[i].len = 0) =>
                  /\ bq_log[i].item = <<>>
                  /\ i < Len(bq_log) => bq_log[i + 1].len = 0
                  /\ (i = Len(bq_log) /\ bq_pc = "ops") => bq = <<>>
        /\ \A k \in 0 .. Len(bq_log) :
              /\ PushesThenPops(k, "push_front", "pop_front") => ReversePushOrder(k)
              /\ PushesThenPops(k, "push_back", "pop_back") => ReversePushOrder(k)

\* Two different bits were pushed to the front and both popped from the front
\* again; and a pop found the queue empty.
C13_Witness ==
    /\ bq_src = <<>> /\ Len(bq_log) = 4
    /\ PushesThenPops(2, "push_front", "pop_front")
    /\ bq_log[1].item # bq_log[2].item
    /\ bq_log[3].item = bq_log[2].item /\ bq_log[4].item = bq_log[1].item

\* C19: a.append(b) and a.copy_from(b) both leave a holding its old bits
\* followed by b's bits in b's front-to-back order; append leaves b empty,
\* copy_from leaves b as it was.
C19_AppendCopyFrom ==
    /\ bq_pc \in {"append", "copy_from"} => bq = bq_a0 \o bq_b0
    /\ bq_pc = "append" => bq_b = <<>>
    /\ bq_pc = "copy_from" => bq_b = bq_b0

\* The weight of the Terminal node of byte value b below node, the count the
\* decoder rebuilt its tree from.
RECURSIVE terminal_weight(_, _)
terminal_weight(node, b) ==
    IF node.kind = "Terminal" THEN (IF node.value = b THEN node.weight ELSE 0)
    ELSE terminal_weight(node.left, b) + terminal_weight(node.right, b)

\* The big-endian integer the bytes spell, most significant byte first.
RECURSIVE be_value(_, _)
be_value(bytes, acc) ==
    IF bytes = <<>> THEN acc
    ELSE be_value(Tail(bytes), acc * 256 + Head(bytes))

\* The last process call is the one that found the whole header buffered.
HeaderJustParsed ==
    /\ dec_chunks # <<>> /\ dec.tree # NoTree
    /\ dec_pos - dec_chunks[Len(dec_chunks)] < HeaderBytes

\* C14: the call that finds a whole header buffered removes the first
\* HeaderBits bits received, rebuilds for every byte value i the big-endian
\* integer of header bytes 8i .. 8i+7 as its count, and leaves the bits
\* received after the header buffered in arrival order.
C14_HeaderParsing ==
    HeaderJustParsed =>
        /\ \A i \in Symbols :
              terminal_weight(dec.tree.root, i) =
                  be_value(SubSeq(dec_stream, i * CountBytes + 1,
                                  i * CountBytes + CountBytes), 0)
        /\ dec.buffer_in = bytes_to_bools(SubSeq(dec_stream, HeaderBytes + 1, dec_pos))

\* The bits the encoder appends to its output for byte s (process_buffer,
\* line 139), in the order they are appended.
emitted_code(s) == copy_from(BQ_new, b_tree.index[s])

IsPrefix(a, b) == Len(a) <= Len(b) /\ SubSeq(b, 1, Len(a)) = a

\* C15: for the tree build returns, the bits the encoder appends for a byte
\* are the choices on the path from the root to the byte's Terminal, root
\* first, FALSE for left and TRUE for right; no byte's code is a prefix of
\* another's.
C15_IndexMatchesTree ==
    b_tree # NoTree =>
        /\ \A s \in Symbols : emitted_code(s) = path_to(b_tree.root, s)
        /\ \A s, t \in Symbols :
              s # t => ~IsPrefix(emitted_code(s), emitted_code(t))

\* C15 witness: a built tree with a code that reads differently from the leaf
\* up than from the root down.
C15_Witness ==
    /\ b_tree # NoTree
    /\ \E s \in Symbols : b_tree.index[s] # emitted_code(s)

\* C16: the encoder starts without a tree; once a call has built the tree,
\* no later process or flush call removes or changes the tree (and with it
\* the code index) or changes the frequency table.
C16_PhaseOneWay ==
    /\ []((enc_chunks = <<>> /\ ~enc_flushed) => enc.tree = NoTree)
    /\ [][enc.tree # NoTree =>
              /\ enc'.tree = enc.tree
              /\ enc'.counts = enc.counts]_vars

\* C16 witness: the first process call built the tree and a second one has
\* processed at least one byte since.
C16_Witness ==
    /\ Len(enc_chunks) = 2 /\ ~enc_flushed
    /\ enc_chunks[1] > enc.build_tree_after
    /\ enc_chunks[2] >= 1
    /\ enc.tree # NoTree

\* The number of code bits the index spells for the bytes.
RECURSIVE code_bits(_, _)
code_bits(index, bytes) ==
    IF bytes = <<>> THEN 0
    ELSE Len(index[Head(bytes)]) + code_bits(index, Tail(bytes))

\* C17: in the process or flush call that builds the tree, every bit of the
\* serialized header and of the codes of the pending bytes (all bytes fed so
\* far) is in the bytes the call returns or still in buffer_out afterwards.
C17_NothingDropped ==
    [][(enc.tree = NoTree /\ enc'.tree # NoTree) =>
          BitsPerByte * (Len(enc_out') - Len(enc_out)) + Len(enc'.buffer_out)
              >= HeaderBits + code_bits(enc'.tree.index, enc_fed')]_vars

\* The node the choices of path lead to from node.
RECURSIVE descend(_, _)
descend(node, path) ==
    IF path = <<>> \/ node.kind = "Terminal" THEN node
    ELSE descend(IF Head(path) THEN node.right ELSE node.left, Tail(path))

\* The paths of the bytes, root to leaf, one after the other.
RECURSIVE paths_of(_, _)
paths_of(root, bytes) ==
    IF bytes = <<>> THEN <<>>
    ELSE path_to(root, Head(bytes)) \o paths_of(root, Tail(bytes))

\* C18: a process call in Decoding leaves in buffer_in exactly the bits it
\* consumed since the last byte it emitted, in consumption order (the bits
\* of the codes of the bytes it emitted followed by buffer_in are the bits it
\* had to read, and buffer_in leads from the root to an Interior node);
\* after a Decoding call the next call goes on from that node: it emits and
\* leaves what the walk resumed there over the bits of its own chunk does.
C18_MidCodeResumption ==
    [][(dec.tree # NoTree /\ dec_pos' > dec_pos) =>
          LET root == dec.tree.root
              chunk == SubSeq(dec_stream, dec_pos + 1, dec_pos')
              arrived == push_back_u8s(BQ_new, chunk)
              emitted == SubSeq(dec_out', Len(dec_out) + 1, Len(dec_out'))
              resumed == walk(root, descend(root, dec.buffer_in), arrived,
                              dec.buffer_in, <<>>)
          IN  /\ paths_of(root, emitted) \o dec'.buffer_in = dec.buffer_in \o arrived
              /\ descend(root, dec'.buffer_in).kind = "Interior"
              /\ ~HeaderJustParsed =>
                    /\ emitted = resumed.out
                    /\ dec'.buffer_in = resumed.followed_path]_vars

\* C18 witness: after the header, a Decoding call ended part-way down the
\* tree and the next one emitted a byte.
C18_Witness ==
    /\ Len(dec_chunks) = 3 /\ dec_chunks[1] = HeaderBytes
    /\ dec.tree # NoTree
    /\ LET c1 == SubSeq(dec_stream, 1, HeaderBytes)
           c2 == SubSeq(dec_stream, HeaderBytes + 1, HeaderBytes + dec_chunks[2])
           second == dec_process(dec_process(new_decoder, c1).self, c2)
       IN  /\ second.self.buffer_in # <<>>
           /\ Len(dec_out) > Len(second.out)

\* C20: once flush has returned, no complete code received after the header
\* is left undecoded: decoding what buffer_in still holds yields no byte.
C20_AllDecoded ==
    (dec_flushed /\ dec.tree # NoTree) =>
        walk(dec.tree.root, dec.tree.root, dec.buffer_in, BQ_new, <<>>).out = <<>>

=============================================================================
